---- MODULE Spec2Model ----
(***************************************************************************)
(* A model of robertvigorito/scanline-test.                                *)
(*                                                                         *)
(*   function_test.py : the signed name ledger (write_to_text,             *)
(*                      knob_name_count, clear_directory,                  *)
(*                      _validate_basename, _mkdir)                        *)
(*   ui_test.py       : the value coercion of the "Set" dialog             *)
(*                      (GatherAndSet._update_knob_value, prepare_values)  *)
(*                                                                         *)
(* Python strings are modelled as sequences of one-character strings, so   *)
(* that joining, splitting, stripping, pattern matching and number parsing *)
(* are computed character by character the way the code computes them.     *)
(***************************************************************************)
EXTENDS Integers, Sequences, FiniteSets, TLC

(***************************************************************************)
(* Bounds of the model.                                                    *)
(***************************************************************************)
\* longest collection of names handed to write_to_text
MaxNames == 2
\* number of ledger operations in one behaviour
MaxCalls == 2
\* longest text of the value line edit
MaxRaw == 4
\* largest number of nodes of the selected class
MaxNodes == 3

(***************************************************************************)
(* Characters and strings.                                                 *)
(***************************************************************************)
NL == "\n"

Digits == {"0", "1", "2", "3", "4", "5", "6", "7", "8", "9"}

Letters == {"a", "b", "c", "d", "e", "f", "g", "h", "i", "j", "k", "l", "m",
            "n", "o", "p", "q", "r", "s", "t", "u", "v", "w", "x", "y", "z",
            "A", "B", "C", "D", "E", "F", "G", "H", "I", "J", "K", "L", "M",
            "N", "O", "P", "Q", "R", "S", "T", "U", "V", "W", "X", "Y", "Z"}

\* the characters the regular expression class \w matches
WordChars == Letters \cup Digits \cup {"_"}

\* the characters str.strip() removes
Whitespace == {" ", "\t", "\n", "\r"}

\* the characters in the order of their character codes, as sorted() compares them
CharOrder == <<"\t", "\n", "\r", " ", ",", "-", ".",
               "0", "1", "2", "3", "4", "5", "6", "7", "8", "9",
               "<", ">", "A", "B", "T", "X", "_",
               "a", "b", "c", "d", "e", "h", "i", "l", "m", "n", "o", "p",
               "s", "t", "u", "v", "x", "y">>

Ord(c) == CHOOSE i \in 1..Len(CharOrder) : CharOrder[i] = c

\* str.lower() on one character
LowerChar(c) ==
    CASE c = "A" -> "a"
      [] c = "B" -> "b"
      [] c = "T" -> "t"
      [] c = "X" -> "x"
      [] OTHER -> c

Lower(s) == [i \in 1..Len(s) |-> LowerChar(s[i])]

\* s < t for two strings, as Python orders them
RECURSIVE StrLess(_, _)
StrLess(s, t) ==
    IF t = <<>> THEN FALSE
    ELSE IF s = <<>> THEN TRUE
    ELSE IF s[1] = t[1] THEN StrLess(Tail(s), Tail(t))
    ELSE Ord(s[1]) < Ord(t[1])

\* str.join: the strings of `parts` with `sep` between them
RECURSIVE Join(_, _)
Join(sep, parts) ==
    IF parts = <<>> THEN <<>>
    ELSE IF Len(parts) = 1 THEN parts[1]
    ELSE parts[1] \o <<sep>> \o Join(sep, Tail(parts))

\* str.splitlines: the lines of s, no empty last line after a final line break
RECURSIVE SplitLinesFrom(_, _)
SplitLinesFrom(s, cur) ==
    IF s = <<>> THEN (IF cur = <<>> THEN <<>> ELSE <<cur>>)
    ELSE IF s[1] \in {"\n", "\r"} THEN <<cur>> \o SplitLinesFrom(Tail(s), <<>>)
    ELSE SplitLinesFrom(Tail(s), Append(cur, s[1]))

SplitLines(s) == SplitLinesFrom(s, <<>>)

\* file.readline(): the text up to and including the first line break
RECURSIVE ReadLine(_)
ReadLine(s) ==
    IF s = <<>> THEN <<>>
    ELSE IF s[1] = NL THEN <<NL>>
    ELSE <<s[1]>> \o ReadLine(Tail(s))

RECURSIVE LStrip(_)
LStrip(s) == IF s # <<>> /\ s[1] \in Whitespace THEN LStrip(Tail(s)) ELSE s

RECURSIVE RStrip(_)
RStrip(s) ==
    IF s # <<>> /\ s[Len(s)] \in Whitespace THEN RStrip(SubSeq(s, 1, Len(s) - 1))
    ELSE s

\* str.strip()
Strip(s) == LStrip(RStrip(s))

\* str.isdigit()
IsDigit(s) == s # <<>> /\ \A i \in 1..Len(s) : s[i] \in Digits

DigitVal(c) == Ord(c) - Ord("0")

\* int() of a string of digits
RECURSIVE DigitsToInt(_)
DigitsToInt(s) ==
    IF s = <<>> THEN 0
    ELSE 10 * DigitsToInt(SubSeq(s, 1, Len(s) - 1)) + DigitVal(s[Len(s)])

\* str() of a natural number
RECURSIVE IntToDigits(_)
IntToDigits(n) ==
    IF n < 10 THEN <<CharOrder[Ord("0") + n]>>
    ELSE Append(IntToDigits(n \div 10), CharOrder[Ord("0") + (n % 10)])

(***************************************************************************)
(* function_test.py: the signed name ledger.                               *)
(***************************************************************************)
__SIGNATURE == <<"<", "s", "c", "a", "n", "l", "i", "n", "e", "-", "t", "e", "s", "t", ">">>

TxtExt == <<".", "t", "x", "t">>

\* os.path.splitext(p)[0]: p without its extension; leading dots start no extension
SplitextRoot(p) ==
    LET dots == {i \in 1..Len(p) : p[i] = "."}
    IN  IF dots = {} THEN p
        ELSE LET d == CHOOSE i \in dots : \A j \in dots : j <= i
             IN  IF \E j \in 1..(d - 1) : p[j] # "." THEN SubSeq(p, 1, d - 1) ELSE p

\* re.findall(r"([\w-]+[\D])(\d+)?$", stem): the leftmost match, or none.
\* [\D] can only sit on the last non-digit of the stem (digits alone follow it up
\* to $), and [\w-]+ needs at least one word character or "-" right before it.
BasenameMatch(stem) ==
    LET nondigit == {i \in 1..Len(stem) : stem[i] \notin Digits}
    IN  IF nondigit = {} THEN [found |-> FALSE, prefix |-> <<>>, increment |-> <<>>]
        ELSE LET q == CHOOSE i \in nondigit : \A j \in nondigit : j <= i
                 starts == {p \in 1..(q - 1) :
                               \A j \in p..(q - 1) : stem[j] \in WordChars \cup {"-"}}
             IN  IF starts = {}
                 THEN [found |-> FALSE, prefix |-> <<>>, increment |-> <<>>]
                 ELSE LET p == CHOOSE i \in starts : \A j \in starts : i <= j
                      IN  [found |-> TRUE,
                           prefix |-> SubSeq(stem, p, q),
                           increment |-> SubSeq(stem, q + 1, Len(stem))]

\* _validate_basename(dirname, basename) with listing = os.listdir(dirname):
\* [err |-> "", name |-> the name to write] or [err |-> "IndexError"] when the
\* pattern finds nothing in the stem and findall(...)[0] raises
RECURSIVE _validate_basename(_, _)
_validate_basename(listing, basename) ==
    LET base_with_ext == SplitextRoot(basename) \o TxtExt
    IN  IF ~(\E f \in listing : Lower(f) = Lower(base_with_ext))
        THEN [err |-> "", name |-> base_with_ext]
        ELSE LET m == BasenameMatch(SplitextRoot(basename))
             IN  IF ~m.found THEN [err |-> "IndexError", name |-> <<>>]
                 ELSE LET increment ==
                              (IF m.increment = <<>> THEN 0 ELSE DigitsToInt(m.increment)) + 1
                      IN  _validate_basename(listing,
                                            m.prefix \o IntToDigits(increment) \o TxtExt)

\* s with x put in before the first element that is greater than x
RECURSIVE Insert(_, _)
Insert(x, s) ==
    IF s = <<>> THEN <<x>>
    ELSE IF StrLess(x, s[1]) THEN <<x>> \o s
    ELSE <<s[1]>> \o Insert(x, Tail(s))

\* sorted(names)
RECURSIVE Sorted(_)
Sorted(names) ==
    IF names = <<>> THEN <<>>
    ELSE Insert(names[Len(names)], Sorted(SubSeq(names, 1, Len(names) - 1)))

\* [name for name in names if name]
RECURSIVE NonEmpty(_)
NonEmpty(names) ==
    IF names = <<>> THEN <<>>
    ELSE IF names[1] = <<>> THEN NonEmpty(Tail(names))
    ELSE <<names[1]>> \o NonEmpty(Tail(names))

\* the text write_to_text writes: the signature, then the sorted non-empty names
LedgerText(names) == Join(NL, <<__SIGNATURE>> \o NonEmpty(Sorted(names)))

\* fs with file `name` holding `text`
Put(fs, name, text) ==
    [f \in DOMAIN fs \cup {name} |-> IF f = name THEN text ELSE fs[f]]

\* fs without file `name`
Remove(fs, name) == [f \in DOMAIN fs \ {name} |-> fs[f]]

\* _mkdir(directory): the directory exists afterwards unless os.mkdir fails for
\* another reason than "exists already" (mkdirOk false); the OSError is swallowed
_mkdir(exists, mkdirOk) == exists \/ mkdirOk

\* write_to_text(names, dirname, basename) on a directory that exists or not and
\* holds the files fs; basename <<>> is "no basename", token is uuid.uuid4()
write_to_text(exists, fs, names, basename, token, mkdirOk) ==
    IF names = <<>>
    THEN [err |-> "ValueError", path |-> <<>>, exists |-> exists, fs |-> fs]
    ELSE LET valid ==
                 IF basename = <<>> THEN [err |-> "", name |-> token \o TxtExt]
                 ELSE IF ~exists THEN [err |-> "OSError", name |-> <<>>]
                 ELSE _validate_basename(DOMAIN fs, basename)
         IN  IF valid.err # ""
             THEN [err |-> valid.err, path |-> <<>>, exists |-> exists, fs |-> fs]
             ELSE IF ~_mkdir(exists, mkdirOk)
             THEN [err |-> "IOError", path |-> <<>>, exists |-> FALSE, fs |-> fs]
             ELSE [err |-> "", path |-> valid.name, exists |-> TRUE,
                   fs |-> Put(fs, valid.name, LedgerText(names))]

\* the number of i with s[i] = x
Occurrences(x, s) == Cardinality({i \in 1..Len(s) : s[i] = x})

\* knob_name_count that tallies every line, the first line included
knob_name_count_all_lines(text) ==
    LET data == SplitLines(IF text = <<>> THEN <<>> ELSE Tail(text))
    IN  [line \in {data[i] : i \in 1..Len(data)} |-> Occurrences(line, data)]

\* knob_name_count(text) on the text of an existing file: seek(1), read(),
\* splitlines(), then every line but the first is tallied
knob_name_count(text) ==
    LET data == SplitLines(IF text = <<>> THEN <<>> ELSE Tail(text))
        rest == IF data = <<>> THEN <<>> ELSE Tail(data)
    IN  [line \in {rest[i] : i \in 1..Len(rest)} |-> Occurrences(line, rest)]

\* glob.glob(os.path.join(directory, "*.txt")): the names that end in .txt and
\* do not start with a dot
IsTxt(f) ==
    /\ Len(f) >= Len(TxtExt)
    /\ SubSeq(f, Len(f) - Len(TxtExt) + 1, Len(f)) = TxtExt
    /\ f[1] # "."

\* the first line of a file as clear_directory compares it with the signature
SignedLine(text) == Strip(ReadLine(text))

\* the loop of clear_directory over text_files, in the order glob gave them.
\* badOpen: the files open() fails on; badRemove: the files os.remove() fails on;
\* answers: what raw_input returns for each file
RECURSIVE clear_loop(_, _, _, _, _, _)
clear_loop(text_files, fs, safe, answers, badOpen, badRemove) ==
    IF text_files = <<>> THEN [err |-> "", fs |-> fs]
    ELSE LET text == text_files[1]
             more == Tail(text_files)
         IN  IF text \in badOpen THEN [err |-> "IOError", fs |-> fs]
             ELSE IF __SIGNATURE # SignedLine(fs[text])
             THEN clear_loop(more, fs, safe, answers, badOpen, badRemove)
             ELSE IF safe /\ answers[text] # "y"
             THEN clear_loop(more, fs, safe, answers, badOpen, badRemove)
             ELSE IF text \in badRemove THEN [err |-> "OSError", fs |-> fs]
             ELSE clear_loop(more, Remove(fs, text), safe, answers, badOpen, badRemove)

\* clear_directory(directory, safe)
clear_directory(text_files, fs, safe, answers, badOpen, badRemove) ==
    clear_loop(text_files, fs, safe, answers, badOpen, badRemove)

(***************************************************************************)
(* ui_test.py: the value coercion of the Set dialog.                       *)
(***************************************************************************)
\* the values handed to knob.setValue: an int n, a float n * 10^e (n not a
\* multiple of 10 unless it is 0), or a text s
IntVal(n) == [t |-> "int", n |-> n, e |-> 0, s |-> <<>>]
StrVal(s) == [t |-> "str", n |-> 0, e |-> 0, s |-> s]

RECURSIVE FloatVal(_, _)
FloatVal(n, e) ==
    IF n = 0 THEN [t |-> "float", n |-> 0, e |-> 0, s |-> <<>>]
    ELSE IF n % 10 = 0 THEN FloatVal(n \div 10, e + 1)
    ELSE [t |-> "float", n |-> n, e |-> e, s |-> <<>>]

NoVal == StrVal(<<>>)

\* the outcome of a coercion function: the value, or the exception it raises
Value(v) == [err |-> "", msg |-> "", val |-> v]
Raise(err, msg) == [err |-> err, msg |-> msg, val |-> NoVal]

\* a sign in front of a number: [neg, rest]
Signed(s) ==
    IF s # <<>> /\ s[1] \in {"-", "+"} THEN [neg |-> s[1] = "-", rest |-> Tail(s)]
    ELSE [neg |-> FALSE, rest |-> s]

\* int(attr): blanks around, a sign, digits
IntSigned(p) ==
    IF IsDigit(p.rest) THEN Value(IntVal((IF p.neg THEN -1 ELSE 1) * DigitsToInt(p.rest)))
    ELSE Raise("ValueError", "invalid literal for int()")

int(attr) == IntSigned(Signed(Strip(attr)))

\* the place of the first e of s, or Len(s) + 1
ExponentAt(s) ==
    IF \E i \in 1..Len(s) : s[i] \in {"e", "E"}
    THEN CHOOSE i \in 1..Len(s) : s[i] \in {"e", "E"} /\ \A j \in 1..(i - 1) : s[j] \notin {"e", "E"}
    ELSE Len(s) + 1

\* the place of the first point of s, or Len(s) + 1
PointAt(s) ==
    IF \E i \in 1..Len(s) : s[i] = "."
    THEN CHOOSE i \in 1..Len(s) : s[i] = "." /\ \A j \in 1..(i - 1) : s[j] # "."
    ELSE Len(s) + 1

\* the float of the digits whole.frac with the exponent text (hasExp: there is one)
FloatOf(neg, whole, frac, hasExp, exponent) ==
    IF /\ whole \o frac # <<>>
       /\ \A i \in 1..Len(whole) : whole[i] \in Digits
       /\ \A i \in 1..Len(frac) : frac[i] \in Digits
       /\ hasExp => IsDigit(exponent.rest)
    THEN Value(FloatVal((IF neg THEN -1 ELSE 1) * DigitsToInt(whole \o frac),
                        (IF ~hasExp THEN 0
                         ELSE (IF exponent.neg THEN -1 ELSE 1) * DigitsToInt(exponent.rest))
                        - Len(frac)))
    ELSE Raise("ValueError", "could not convert string to float")

\* the float of a mantissa text, with the point at dPos, and an exponent text
FloatMantissa(neg, mantissa, dPos, hasExp, exponent) ==
    FloatOf(neg, SubSeq(mantissa, 1, dPos - 1), SubSeq(mantissa, dPos + 1, Len(mantissa)),
            hasExp, exponent)

\* the float of an unsigned text with its exponent at ePos
FloatUnsigned(neg, rest, ePos) ==
    FloatMantissa(neg, SubSeq(rest, 1, ePos - 1), PointAt(SubSeq(rest, 1, ePos - 1)),
                  ePos <= Len(rest), Signed(SubSeq(rest, ePos + 1, Len(rest))))

FloatSigned(p) == FloatUnsigned(p.neg, p.rest, ExponentAt(p.rest))

\* float(attr): blanks around, a sign, digits with at most one point and at least
\* one digit, then possibly an exponent: e, a sign, digits
float(attr) == FloatSigned(Signed(Strip(attr)))

\* str(attr)
str(attr) == Value(StrVal(attr))

\* is_int(attr)
is_int(attr) == IF IsDigit(attr) THEN int(attr) ELSE Value(IntVal(1))

\* is_int_or_str(attr)
is_int_or_str(attr) == IF IsDigit(attr) THEN int(attr) ELSE str(attr)

\* the host's formats: nuke.formats() by name, and nuke.root().format().name()
Formats == <<<<"P", "A", "L">>, <<"H", "D">>>>
RootFormat == <<"H", "D">>

\* filter_format(attr)
filter_format(attr) ==
    IF ~IsDigit(attr) THEN Raise("TypeError", "Please provide an int value!")
    ELSE IF DigitsToInt(attr) = 0 THEN Value(StrVal(RootFormat))
    ELSE IF DigitsToInt(attr) > Len(Formats) THEN Raise("IndexError", "list index out of range")
    ELSE Value(StrVal(Formats[DigitsToInt(attr)]))

\* the knob classes of GatherAndSet.__KNOB_TYPES, and one that is not in it
Kinds == {"Boolean_Knob", "ChannelMask_Knob", "Enumeration_Knob", "Int_Knob",
          "Format_Knob", "Array_Knob", "Disable_Knob", "String_Knob"}

\* self.__KNOB_TYPES.get(knob.Class(), str)(attr)
knob_type(kind, attr) ==
    CASE kind \in {"Boolean_Knob", "Disable_Knob"} -> is_int(attr)
      [] kind = "ChannelMask_Knob" -> str(attr)
      [] kind = "Enumeration_Knob" -> is_int_or_str(attr)
      [] kind = "Int_Knob" -> int(attr)
      [] kind = "Format_Knob" -> filter_format(attr)
      [] kind = "Array_Knob" -> float(attr)
      [] OTHER -> str(attr)

\* self.__PATTERN.findall(value) for the pattern [\w.]+: the longest runs of
\* word characters and points
RECURSIVE FindTokens(_, _)
FindTokens(s, cur) ==
    IF s = <<>> THEN (IF cur = <<>> THEN <<>> ELSE <<cur>>)
    ELSE IF s[1] \in WordChars \cup {"."} THEN FindTokens(Tail(s), Append(cur, s[1]))
    ELSE (IF cur = <<>> THEN <<>> ELSE <<cur>>) \o FindTokens(Tail(s), <<>>)

findall(value) == FindTokens(value, <<>>)

\* [knob_type(v) for v in tokens]: the values, or the first exception raised
RECURSIVE CoerceEach(_, _)
CoerceEach(kind, tokens) ==
    IF tokens = <<>> THEN [err |-> "", msg |-> "", vals |-> <<>>]
    ELSE LET first == knob_type(kind, tokens[1])
         IN  IF first.err # "" THEN [err |-> first.err, msg |-> first.msg, vals |-> <<>>]
             ELSE LET more == CoerceEach(kind, Tail(tokens))
                  IN  IF more.err # "" THEN more
                      ELSE [err |-> "", msg |-> "", vals |-> <<first.val>> \o more.vals]

\* a knob without arraySize
NoArray == 0

\* the outcome of the loop body of _update_knob_value up to setValue, for a knob
\* of class `kind` with arraySize() = array (NoArray: no such attribute):
\* the argument of setValue (a scalar, or a list of vals), or the exception
Scalar(r) == [err |-> r.err, msg |-> r.msg, scalar |-> r.err = "", expected |-> 0, got |-> 0,
              vals |-> IF r.err = "" THEN <<r.val>> ELSE <<>>]

\* [x] * array
Repeat(r, arr) ==
    [err |-> r.err, msg |-> r.msg, scalar |-> FALSE, expected |-> 0, got |-> 0,
     vals |-> IF r.err = "" THEN [i \in 1..arr |-> r.val] ELSE <<>>]

\* the rest of the loop body once the tokens are coerced (each)
CoerceArray(val, knd, arr, each) ==
    IF each.err # ""
    THEN [err |-> each.err, msg |-> each.msg, scalar |-> FALSE,
          expected |-> 0, got |-> 0, vals |-> <<>>]
    ELSE IF arr = 1 THEN Scalar(knob_type(knd, val))
    ELSE IF Len(each.vals) # arr /\ Len(each.vals) = 1 THEN Repeat(knob_type(knd, val), arr)
    ELSE IF arr # Len(each.vals)
    THEN [err |-> "TypeError", msg |-> "Array doesnt match!", scalar |-> FALSE,
          expected |-> arr, got |-> Len(each.vals), vals |-> <<>>]
    ELSE [err |-> "", msg |-> "", scalar |-> FALSE, expected |-> 0, got |-> 0,
          vals |-> each.vals]

coerce_value(val, knd, arr) ==
    IF arr = NoArray THEN Scalar(knob_type(knd, val))
    ELSE CoerceArray(val, knd, arr, CoerceEach(knd, findall(val)))

\* a node's knob: its arraySize() (or NoArray), whether the host's setValue raises
\* on it, the argument of the last setValue that went through, and the number of
\* setValue calls made on it
Knob(arr, rejects) ==
    [array |-> arr, rejects |-> rejects,
     arg |-> [scalar |-> TRUE, vals |-> <<StrVal(<<"o", "l", "d">>)>>], sets |-> 0]

\* knob.setValue(value) going through on node i
SetValue(ns, i, c) ==
    [ns EXCEPT ![i].arg = [scalar |-> c.scalar, vals |-> c.vals], ![i].sets = @ + 1]

\* the exception e and the nodes as it leaves them
Thrown(err, msg, ns) == [err |-> err, msg |-> msg, nodes |-> ns]

\* _update_knob_value that goes on with the next node after a node failed
RECURSIVE _update_knob_value_skipping(_, _, _, _)
SkipNode(ns, i, val, knd, c) ==
    IF c.err # "" \/ ns[i].rejects
    THEN Thrown("Exception", c.msg, _update_knob_value_skipping(ns, i + 1, val, knd).nodes)
    ELSE _update_knob_value_skipping(SetValue(ns, i, c), i + 1, val, knd)

_update_knob_value_skipping(ns, i, val, knd) ==
    IF i > Len(ns) THEN Thrown("", "", ns)
    ELSE SkipNode(ns, i, val, knd, coerce_value(val, knd, ns[i].array))

\* one pass of the loop of _update_knob_value, for node i with the outcome c of
\* the coercion: the first exception (of the coercion, or of the host's
\* setValue) ends the loop
RECURSIVE _update_knob_value(_, _, _, _)
UpdateNode(ns, i, val, knd, c) ==
    IF c.err # "" THEN Thrown(c.err, c.msg, ns)
    ELSE IF ns[i].rejects
    THEN Thrown("HostError", "setValue", [ns EXCEPT ![i].sets = @ + 1])
    ELSE _update_knob_value(SetValue(ns, i, c), i + 1, val, knd)

\* _update_knob_value from node i on: the loop over nuke.allNodes(class_name)
_update_knob_value(ns, i, val, knd) ==
    IF i > Len(ns) THEN Thrown("", "", ns)
    ELSE UpdateNode(ns, i, val, knd, coerce_value(val, knd, ns[i].array))

\* the try of prepare_values around the outcome r of _update_knob_value
Caught(val, r) ==
    [returned |-> r.err = "",
     warnings |-> IF val = <<>> THEN {"Value required for the set operation"} ELSE {},
     err |-> r.err, msg |-> r.msg, nodes |-> r.nodes]

\* prepare_values(): selected says whether class_name is in classes and knob_name
\* in knobs; gives what is returned, the warnings shown, the exception caught
\* and the nodes afterwards
prepare_values(selected, val, knd, ns) ==
    IF ~selected
    THEN [returned |-> FALSE, warnings |-> {"Please select valid class and knob!"},
          err |-> "", msg |-> "", nodes |-> ns]
    ELSE Caught(val, _update_knob_value(ns, 1, val, knd))

(***************************************************************************)
(* The inputs the ledger operations are called with.                       *)
(***************************************************************************)
\* knob names; <<>> is an empty list item
KnobNames == {<<>>, <<"a">>, <<"b">>, <<"a", "b">>}

\* the collections of at most n names
NameLists(n) == UNION {[1..k -> KnobNames] : k \in 0..n}

\* basenames a caller passes; <<>> stands for basename=None
Basenames == {<<>>,
              <<"a", "b">>,
              <<"A", "B", ".", "t", "x", "t">>,
              <<"a", "b", "1", ".", "m", "o", "v">>,
              <<"a">>}

\* values of str(uuid.uuid4())
Uuids == {<<"e", "0">>, <<"e", "1">>}

\* files of other programs the directory may hold from the start: a text that is
\* not signed, and a text whose first line is the signature between blanks
ForeignFiles ==
    [f \in {<<"n", ".", "t", "x", "t">>, <<"p", ".", "t", "x", "t">>} |->
        IF f[1] = "n" THEN <<"h", "i", NL, "a">>
        ELSE <<" ">> \o __SIGNATURE \o <<" ", NL, "a">>]

\* a path that names no file
NoFile == <<"n", "o", ".", "t", "x", "t">>

\* the origin of a file this program did not write
Foreign == [written |-> FALSE, names |-> <<>>]

\* all orders of the elements of a finite set
RECURSIVE Orders(_)
Orders(S) ==
    IF S = {} THEN {<<>>}
    ELSE UNION {{<<x>> \o o : o \in Orders(S \ {x})} : x \in S}

NoOp == [op |-> "none", err |-> "", path |-> <<>>, names |-> <<>>, basename |-> <<>>,
         mkdirOk |-> FALSE, safe |-> FALSE, answers |-> <<>>, bad |-> <<>>,
         count |-> <<>>, preExists |-> FALSE, preFiles |-> <<>>]

VARIABLES
    dirExists,  \* whether the target directory exists
    files,      \* the files of the directory: name -> text
    origin,     \* for each file, the names it was written from, or Foreign
    last,       \* the last operation: its inputs, the state before it, its outcome
    calls       \* the number of operations so far

ledgerVars == <<dirExists, files, origin, last, calls>>

VARIABLES
    value,      \* the text of the value line edit
    kind,       \* knob.Class() of the selected knob
    array,      \* knob.arraySize() of the knob coerce_value is applied to
    coerced,    \* the outcome of coerce_value
    nodes,      \* the nodes of the selected class, in the order nuke.allNodes gives
    dialog      \* the last press of Set: the nodes before it and what it returned

dialogVars == <<value, kind, array, coerced, nodes, dialog>>

\* the processes that call write_to_text on the one directory at the same time
Callers == {"c1", "c2"}

\* a caller that has not called yet
NotCalled == [pc |-> "idle", names |-> <<>>, basename |-> <<>>, name |-> <<>>,
              err |-> "", path |-> <<>>, early |-> FALSE, order |-> 0]

VARIABLES
    callers     \* for each caller, where it is in write_to_text and what it holds

raceVars == <<callers>>

vars == <<ledgerVars, dialogVars, raceVars>>

NotCoerced == [err |-> "none", msg |-> "", scalar |-> FALSE, expected |-> 0, got |-> 0,
               vals |-> <<>>]

NotPressed == [pressed |-> FALSE, selected |-> FALSE, returned |-> FALSE, warnings |-> {},
               err |-> "", msg |-> "", pre |-> <<>>]

\* the dialog is not in use
DialogIdle ==
    /\ value = <<>>
    /\ kind = "String_Knob"
    /\ array = NoArray
    /\ coerced = NotCoerced
    /\ nodes = <<>>
    /\ dialog = NotPressed

\* no caller is in write_to_text
RaceIdle == callers = [c \in Callers |-> NotCalled]

\* the ledger is not in use
LedgerIdle ==
    /\ dirExists = FALSE
    /\ files = <<>>
    /\ origin = <<>>
    /\ last = NoOp
    /\ calls = 0

InitLedger ==
    /\ dirExists \in BOOLEAN
    /\ \E S \in SUBSET DOMAIN ForeignFiles :
          /\ dirExists \/ S = {}
          /\ files = [f \in S |-> ForeignFiles[f]]
          /\ origin = [f \in S |-> Foreign]
    /\ last = NoOp
    /\ calls = 0
    /\ DialogIdle
    /\ RaceIdle

\* write_to_text(names, dirname, basename) called with one of `lists` as names
\* and one of `basenames` as basename
Write(lists, basenames) ==
    \E names \in lists, basename \in basenames, token \in Uuids, mkdirOk \in BOOLEAN :
        LET r == write_to_text(dirExists, files, names, basename, token, mkdirOk)
        IN  /\ dirExists' = r.exists
            /\ files' = r.fs
            /\ origin' = IF r.err = ""
                         THEN Put(origin, r.path, [written |-> TRUE, names |-> names])
                         ELSE origin
            /\ last' = [NoOp EXCEPT !.op = "write", !.err = r.err, !.path = r.path,
                                    !.names = names, !.basename = basename,
                                    !.mkdirOk = mkdirOk,
                                    !.preExists = dirExists, !.preFiles = files]

\* knob_name_count(text) called with the path of a file, or with NoFile
Count ==
    /\ \E text \in DOMAIN files \cup {NoFile} :
          last' = IF text \in DOMAIN files
                  THEN [NoOp EXCEPT !.op = "count", !.path = text,
                                    !.count = knob_name_count(files[text]),
                                    !.preExists = dirExists, !.preFiles = files]
                  ELSE [NoOp EXCEPT !.op = "count", !.path = text, !.err = "OSError",
                                    !.preExists = dirExists, !.preFiles = files]
    /\ UNCHANGED <<dirExists, files, origin>>

\* clear_directory(directory, safe); glob lists the .txt files in any order, the
\* user answers each prompt with y or n, and at most one file (bad) cannot be
\* opened or cannot be removed
clear_signed ==
    /\ LET txt == {f \in DOMAIN files : IsTxt(f)}
       IN  \E safe \in BOOLEAN, text_files \in Orders(txt),
              answers \in [txt -> {"y", "n"}],
              bad \in {<<>>} \cup (txt \X {"open", "remove"}) :
              LET badOpen == IF bad # <<>> /\ bad[2] = "open" THEN {bad[1]} ELSE {}
                  badRemove == IF bad # <<>> /\ bad[2] = "remove" THEN {bad[1]} ELSE {}
                  r == clear_directory(text_files, files, safe, answers, badOpen, badRemove)
              IN  /\ safe \/ \A f \in txt : answers[f] = "y"
                  /\ files' = r.fs
                  /\ origin' = [f \in DOMAIN r.fs |-> origin[f]]
                  /\ last' = [NoOp EXCEPT !.op = "clear", !.err = r.err, !.safe = safe,
                                          !.answers = answers, !.bad = bad,
                                          !.preExists = dirExists, !.preFiles = files]
    /\ UNCHANGED dirExists

(***************************************************************************)
(* SpecLedger: a caller runs up to MaxCalls ledger operations, in any      *)
(* order, on one directory.                                                *)
(***************************************************************************)
\* the collections of names the callers of SpecLedger write
FewLists == {<<<<"a">>>>, <<<<"b">>, <<"a">>>>}

WriteLedger ==
    /\ calls < MaxCalls
    /\ Write(FewLists, Basenames)
    /\ calls' = calls + 1
    /\ UNCHANGED <<dialogVars, raceVars>>

CountLedger ==
    /\ calls < MaxCalls
    /\ Count
    /\ calls' = calls + 1
    /\ UNCHANGED <<dialogVars, raceVars>>

ClearSigned ==
    /\ calls < MaxCalls
    /\ clear_signed
    /\ calls' = calls + 1
    /\ UNCHANGED <<dialogVars, raceVars>>

NextLedger == WriteLedger \/ CountLedger \/ ClearSigned

SpecLedger == InitLedger /\ [][NextLedger]_vars

(***************************************************************************)
(* SpecCount: a caller writes any collection of at most MaxNames names     *)
(* into a directory that holds no ledger yet, and counts files.            *)
(***************************************************************************)
NoLedger == \A f \in DOMAIN origin : origin[f] = Foreign

WriteFresh ==
    /\ NoLedger
    /\ Write(NameLists(MaxNames), {<<>>, <<"a", "b">>})
    /\ UNCHANGED <<calls, dialogVars, raceVars>>

CountFile == Count /\ UNCHANGED <<calls, dialogVars, raceVars>>

NextCount == WriteFresh \/ CountFile

SpecCount == InitLedger /\ [][NextCount]_vars

(***************************************************************************)
(* Claims about the ledger.                                                *)
(***************************************************************************)
\* the mapping name -> number of occurrences over the non-blank names
Tally(names) ==
    [n \in {names[i] : i \in 1..Len(names)} \ {<<>>} |-> Occurrences(n, names)]

\* the reorderings of a collection of names
Reorderings(names) ==
    {[i \in 1..Len(names) |-> names[o[i]]] : o \in Orders(1..Len(names))}

\* C1: counting a file write_ledger wrote from a collection of names gives exactly
\* the distinct non-blank names, each with the number of times it occurs in the
\* collection; the signature line is no key, and writing any reordering of the
\* collection gives a text that counts the same.
C1_RoundTrip ==
    (last.op = "count" /\ last.err = "" /\ origin[last.path].written) =>
        LET names == origin[last.path].names
        IN  /\ names # <<>>
            /\ last.count = Tally(names)
            /\ \A other \in Reorderings(names) :
                  knob_name_count(LedgerText(other)) = last.count

\* a file written from a blank, and from a name given twice or from two names, was counted
C1_Witness ==
    /\ last.op = "count" /\ last.err = "" /\ origin[last.path].written
    /\ \E i \in 1..Len(origin[last.path].names) : origin[last.path].names[i] = <<>>
    /\ DOMAIN last.count # {}

\* C2: write_ledger (here into an existing directory) fails with InvalidInput
\* (ValueError) and creates no file whenever the names hold no non-empty element:
\* the empty collection, and a collection of empty entries only.
C2_NoNamesRejected ==
    (last.op = "write" /\ last.preExists /\ NonEmpty(last.names) = <<>>) =>
        (last.err = "ValueError" /\ files = last.preFiles)

\* C3: a write_ledger call with an explicit basename into an existing directory
\* succeeds, returns a path that named no file of the directory before the call
\* (compared case-insensitively), adds exactly that file, and leaves the text of
\* every earlier file unchanged.
C3_NoOverwrite ==
    (last.op = "write" /\ last.basename # <<>> /\ last.preExists) =>
        /\ last.err = ""
        /\ \A f \in DOMAIN last.preFiles : Lower(f) # Lower(last.path)
        /\ DOMAIN files = DOMAIN last.preFiles \cup {last.path}
        /\ \A f \in DOMAIN last.preFiles : files[f] = last.preFiles[f]

\* C4: write_ledger called with a directory that does not exist yet (and that
\* os.mkdir can create) creates it and writes the file, with or without a basename.
C4_CreatesDirectory ==
    (last.op = "write" /\ ~last.preExists /\ last.mkdirOk /\ last.names # <<>>) =>
        /\ last.err = ""
        /\ dirExists
        /\ last.path \in DOMAIN files
        /\ files[last.path] = LedgerText(last.names)

\* the first line of a text, without its line break
FirstLine(text) ==
    LET line == ReadLine(text)
    IN  IF line # <<>> /\ line[Len(line)] = NL THEN SubSeq(line, 1, Len(line) - 1) ELSE line

\* C5: clear_signed deletes no .txt file whose first line is not exactly the
\* signature, whatever safe is and whatever the prompts are answered: every such
\* file is still there with its text when the operation ends.
C5_UnsignedKept ==
    last.op = "clear" =>
        \A f \in DOMAIN last.preFiles :
            (IsTxt(f) /\ FirstLine(last.preFiles[f]) # __SIGNATURE) =>
                (f \in DOMAIN files /\ files[f] = last.preFiles[f])

\* C6: when one .txt file cannot be opened or removed, clear_signed skips it,
\* still deletes every other signed file that is to be deleted (all of them when
\* safe is off, the ones answered y otherwise) and returns success.
C6_BestEffort ==
    (last.op = "clear" /\ last.bad # <<>>) =>
        /\ last.err = ""
        /\ \A f \in DOMAIN last.preFiles \ {last.bad[1]} :
              ( /\ IsTxt(f)
                /\ SignedLine(last.preFiles[f]) = __SIGNATURE
                /\ (last.safe => last.answers[f] = "y") ) => f \notin DOMAIN files

(***************************************************************************)
(* SpecCoerce: coerce_value applied once to any value text of at most      *)
(* MaxRaw characters, any knob class and any array size.                   *)
(***************************************************************************)
\* the characters of the value texts: digits, the letter e, a sign, a blank, a point
RawChars == {"0", "1", "e", "-", " ", "."}

\* the value texts of at most n characters
RawValues(n) == UNION {[1..k -> RawChars] : k \in 0..n}

\* knob.arraySize() of the knobs, and NoArray
Arrays == {NoArray, 1, 2, 3}

InitCoerce ==
    /\ value \in RawValues(MaxRaw)
    /\ kind \in Kinds
    /\ array \in Arrays
    /\ coerced = NotCoerced
    /\ nodes = <<>>
    /\ dialog = NotPressed
    /\ LedgerIdle
    /\ RaceIdle

Coerce ==
    /\ coerced = NotCoerced
    /\ coerced' = coerce_value(value, kind, array)
    /\ UNCHANGED <<value, kind, array, nodes, dialog, ledgerVars, raceVars>>

NextCoerce == Coerce

SpecCoerce == InitCoerce /\ [][NextCoerce]_vars

(***************************************************************************)
(* Claims about coerce_value.                                              *)
(***************************************************************************)
\* C7: for a knob whose array size is 1, or that has none, coerce_value gives
\* exactly what the kind's coercion function gives for the whole value text, be
\* it a value or an exception, however the text splits into tokens.
C7_WholeString ==
    (coerced # NotCoerced /\ array \in {NoArray, 1}) =>
        coerced = Scalar(knob_type(kind, value))

\* C8: for an array size N > 1 every successful coerce_value gives a list of
\* exactly N values: the coercion of the i-th token at place i when the text has
\* N tokens, and the coercion of the one token at every place when it has one.
C8_TokensCoerced ==
    (coerced # NotCoerced /\ coerced.err = "" /\ array > 1) =>
        LET tokens == findall(value)
        IN  /\ ~coerced.scalar
            /\ Len(coerced.vals) = array
            /\ Len(tokens) \in {array, 1}
            /\ \A i \in 1..array :
                  LET token == IF Len(tokens) = 1 THEN tokens[1] ELSE tokens[i]
                  IN  coerced.vals[i] = knob_type(kind, token).val

\* C9: for an array size N > 1 and a text of k tokens, k not N and not 1,
\* coerce_value fails with the array mismatch, expected N and got k, for every
\* kind and whatever the tokens are, and hands no value to setValue.
C9_ArityMismatch ==
    (coerced # NotCoerced /\ array > 1 /\ Len(findall(value)) \notin {array, 1}) =>
        /\ coerced.err = "TypeError"
        /\ coerced.msg = "Array doesnt match!"
        /\ coerced.expected = array
        /\ coerced.got = Len(findall(value))
        /\ coerced.vals = <<>>

(***************************************************************************)
(* SpecApply: the Set button is pressed once, with any of SetValues in the *)
(* value line edit, on a class of at most MaxNodes nodes.                  *)
(***************************************************************************)
\* texts of the value line edit: nothing, a number, two numbers, a letter, a
\* number with an exponent, a number after a blank
SetValues == {<<>>, <<"1">>, <<"1", " ", "0">>, <<"e">>, <<"1", "e", "-", "1">>, <<" ", "1">>}

\* the knobs of the nodes of a class, in enumeration order
Classes(n) ==
    UNION {[1..k -> {Knob(a, r) : a \in {NoArray, 1, 2}, r \in BOOLEAN}] : k \in 0..n}

InitApply ==
    /\ value \in SetValues
    /\ kind \in Kinds
    /\ nodes \in Classes(MaxNodes)
    /\ array = NoArray
    /\ coerced = NotCoerced
    /\ dialog = NotPressed
    /\ LedgerIdle
    /\ RaceIdle

\* the Set button: prepare_values()
PressSet ==
    /\ ~dialog.pressed
    /\ \E selected \in BOOLEAN :
          \E r \in {prepare_values(selected, value, kind, nodes)} :
              /\ nodes' = r.nodes
              /\ dialog' = [pressed |-> TRUE, selected |-> selected, returned |-> r.returned,
                            warnings |-> r.warnings, err |-> r.err, msg |-> r.msg,
                            pre |-> nodes]
    /\ UNCHANGED <<value, kind, array, coerced, ledgerVars, raceVars>>

NextApply == PressSet

SpecApply == InitApply /\ [][NextApply]_vars

\* the nodes at which the update of dialog.pre fails: the coercion raises, or
\* the host's setValue does
Failing ==
    {i \in 1..Len(dialog.pre) :
        coerce_value(value, kind, dialog.pre[i].array).err # "" \/ dialog.pre[i].rejects}

\* node i holds the value coerced for it, set by one setValue call
Updated(i) ==
    \E c \in {coerce_value(value, kind, dialog.pre[i].array)} :
        /\ nodes[i].arg = [scalar |-> c.scalar, vals |-> c.vals]
        /\ nodes[i].sets = 1

\* C10: apply_value_to_class goes through the nodes of the class in order; when
\* the coercion or the host's setValue fails at node i, the nodes before i hold
\* the new value, node i and the later nodes keep their value, no later node is
\* tried, and failure is reported; when no node fails every node holds the new
\* value and success is reported.
C10_NoRollback ==
    (dialog.pressed /\ dialog.selected) =>
        /\ Len(nodes) = Len(dialog.pre)
        /\ IF Failing = {}
           THEN dialog.returned /\ \A j \in 1..Len(nodes) : Updated(j)
           ELSE LET i == CHOOSE k \in Failing : \A j \in Failing : k <= j
                IN  /\ ~dialog.returned
                    /\ \A j \in 1..(i - 1) : Updated(j)
                    /\ \A j \in i..Len(nodes) : nodes[j].arg = dialog.pre[j].arg
                    /\ \A j \in (i + 1)..Len(nodes) : nodes[j].sets = 0

\* a press that failed at the second of three nodes, the third of which would
\* have taken the value
C10_Witness ==
    /\ dialog.pressed /\ dialog.selected
    /\ Len(nodes) = 3
    /\ Failing = {2}
    /\ nodes[1].arg # dialog.pre[1].arg
    /\ nodes[3].arg = dialog.pre[3].arg

(***************************************************************************)
(* SpecIncrement: _validate_basename applied once to any of Desired, in a  *)
(* directory that holds any of Entries.                                    *)
(***************************************************************************)
\* the basenames asked for
Desired == {<<"a", "b">>,
            <<"A", "B", ".", "t", "x", "t">>,
            <<"a", "b", "1", ".", "m", "o", "v">>,
            <<"a", "b", "9">>,
            <<"a">>,
            <<"a", "1">>,
            <<"a", " ", "b", "c">>}

\* the entries os.listdir(dirname) may give
Entries == {<<"a", "b", ".", "t", "x", "t">>,
            <<"A", "B", "1", ".", "T", "X", "T">>,
            <<"a", "b", "2", ".", "t", "x", "t">>,
            <<"a", "b", "9", ".", "t", "x", "t">>,
            <<"a", "b", "1", "0", ".", "t", "x", "t">>,
            <<"a", ".", "t", "x", "t">>,
            <<"a", "1", ".", "t", "x", "t">>,
            <<"a", " ", "b", "c", ".", "t", "x", "t">>}

InitIncrement ==
    /\ dirExists = TRUE
    /\ \E S \in SUBSET Entries :
          /\ files = [f \in S |-> <<>>]
          /\ origin = [f \in S |-> Foreign]
    /\ last = NoOp
    /\ calls = 0
    /\ DialogIdle
    /\ RaceIdle

\* _validate_basename(dirname, basename) called once
ValidateBasename ==
    /\ last.op = "none"
    /\ \E basename \in Desired :
          \E r \in {_validate_basename(DOMAIN files, basename)} :
              last' = [NoOp EXCEPT !.op = "validate", !.err = r.err, !.path = r.name,
                                   !.basename = basename,
                                   !.preExists = dirExists, !.preFiles = files]
    /\ UNCHANGED <<dirExists, files, origin, calls, dialogVars, raceVars>>

NextIncrement == ValidateBasename

SpecIncrement == InitIncrement /\ [][NextIncrement]_vars

\* where the digits that end the stem begin (Len(stem) + 1 when it ends in none)
DigitsStart(stem) ==
    CHOOSE p \in 1..(Len(stem) + 1) :
        /\ \A j \in p..Len(stem) : stem[j] \in Digits
        /\ p = 1 \/ stem[p - 1] \notin Digits

\* the stem without the digits that end it
StemPrefix(stem) == SubSeq(stem, 1, DigitsStart(stem) - 1)

\* the number the stem ends in, 0 when it ends in none
StemSuffix(stem) ==
    IF DigitsStart(stem) > Len(stem) THEN 0
    ELSE DigitsToInt(SubSeq(stem, DigitsStart(stem), Len(stem)))

\* <prefix><k>.txt
Numbered(stem, k) == StemPrefix(stem) \o IntToDigits(k) \o TxtExt

\* some entry of the listing equals name, letter case aside
Taken(listing, name) == \E f \in listing : Lower(f) = Lower(name)

\* C11: for a basename with a non-empty stem, the name-increment algorithm ends
\* without error; it returns <stem>.txt when no entry of the directory equals
\* that name case-insensitively, and otherwise <prefix><k>.txt, where prefix is
\* the stem without its trailing digits and k is the smallest integer above the
\* stem's numeric suffix (0 when it has none) whose name no entry equals
\* case-insensitively.
C11_NextFree ==
    (last.op = "validate" /\ SplitextRoot(last.basename) # <<>>) =>
        LET stem == SplitextRoot(last.basename)
            listing == DOMAIN last.preFiles
            low == StemSuffix(stem) + 1
        IN  /\ last.err = ""
            /\ IF ~Taken(listing, stem \o TxtExt)
               THEN last.path = stem \o TxtExt
               ELSE \E k \in low..(low + Cardinality(listing)) :
                       /\ last.path = Numbered(stem, k)
                       /\ ~Taken(listing, Numbered(stem, k))
                       /\ \A j \in low..(k - 1) : Taken(listing, Numbered(stem, j))

(***************************************************************************)
(* SpecRace: the Callers run write_to_text on one directory at the same    *)
(* time.  A caller takes no lock: each os.listdir of _validate_basename,   *)
(* the os.mkdir and the open-and-write are steps of their own, and the     *)
(* steps of the callers interleave in any order.                           *)
(***************************************************************************)
\* the collections of names the callers write; <<>> is rejected
RaceLists == FewLists \cup {<<>>}

\* the basenames the callers pass; <<>> stands for basename=None
RaceBasenames == {<<>>, <<"a", "b">>, <<"a", "b", "1", ".", "m", "o", "v">>}

\* the files of other programs the directory may hold from the start
RaceEntries == {<<"a", "b", ".", "t", "x", "t">>, <<"A", "B", "1", ".", "T", "X", "T">>}

\* "{}{}.txt".format(basename, increment) for the match m of the pattern
NextName(m) ==
    m.prefix
        \o IntToDigits((IF m.increment = <<>> THEN 0 ELSE DigitsToInt(m.increment)) + 1)
        \o TxtExt

\* the body of _validate_basename after a hit in the listing, m the match of
\* the pattern in the stem: the basename of the recursive call, or IndexError
NextPass(m) ==
    IF ~m.found THEN [done |-> TRUE, err |-> "IndexError", name |-> <<>>]
    ELSE [done |-> FALSE, err |-> "", name |-> NextName(m)]

\* one call of _validate_basename up to its recursive call: the name is free
\* (done), or the basename to go on with
validate_pass(listing, basename) ==
    IF ~(\E f \in listing : Lower(f) = Lower(SplitextRoot(basename) \o TxtExt))
    THEN [done |-> TRUE, err |-> "", name |-> SplitextRoot(basename) \o TxtExt]
    ELSE NextPass(BasenameMatch(SplitextRoot(basename)))

\* an exclusive create: a file that exists keeps what it holds
open_x(fs, name, text) == IF name \in DOMAIN fs THEN fs ELSE Put(fs, name, text)

\* open(text, "w") and write: the file holds the text, whatever it held
open_w(fs, name, text) == Put(fs, name, text)

\* no caller has written its file yet
NoneWritten == \A d \in Callers : callers[d].pc # "done"

\* the caller raises err
Fails(c, err) == callers' = [callers EXCEPT ![c].pc = "failed", ![c].err = err]

InitRace ==
    /\ dirExists \in BOOLEAN
    /\ \E S \in SUBSET RaceEntries :
          /\ dirExists \/ S = {}
          /\ files = [f \in S |-> <<"h", "i">>]
          /\ origin = [f \in S |-> Foreign]
    /\ last = NoOp
    /\ calls = 0
    /\ DialogIdle
    /\ RaceIdle

\* write_to_text is called: the names are checked, and without a basename the
\* name is "<uuid>.txt"
Begin(c) ==
    /\ callers[c].pc = "idle"
    /\ \E names \in RaceLists, basename \in RaceBasenames, token \in Uuids :
          callers' = [callers EXCEPT ![c] =
                         [NotCalled EXCEPT
                             !.names = names,
                             !.basename = basename,
                             !.pc = IF names = <<>> THEN "failed"
                                    ELSE IF basename # <<>> THEN "validating"
                                    ELSE "named",
                             !.err = IF names = <<>> THEN "ValueError" ELSE "",
                             !.name = IF names = <<>> THEN <<>>
                                      ELSE IF basename # <<>> THEN basename
                                      ELSE token \o TxtExt,
                             !.early = names # <<>> /\ basename = <<>> /\ NoneWritten]]
    /\ UNCHANGED <<ledgerVars, dialogVars>>

\* one call of _validate_basename: the directory is listed and the name is
\* found free, or the next name is tried
ValidatePass(c) ==
    /\ callers[c].pc = "validating"
    /\ IF ~dirExists THEN Fails(c, "OSError")
       ELSE \E r \in {validate_pass(DOMAIN files, callers[c].name)} :
               IF r.err # "" THEN Fails(c, r.err)
               ELSE callers' = [callers EXCEPT
                                   ![c].name = r.name,
                                   ![c].pc = IF r.done THEN "named" ELSE "validating",
                                   ![c].early = r.done /\ NoneWritten]
    /\ UNCHANGED <<ledgerVars, dialogVars>>

\* _mkdir(dirname)
Mkdir(c) ==
    /\ callers[c].pc = "named"
    /\ \E mkdirOk \in BOOLEAN : dirExists' = _mkdir(dirExists, mkdirOk)
    /\ callers' = [callers EXCEPT ![c].pc = "made"]
    /\ UNCHANGED <<files, origin, last, calls, dialogVars>>

\* the names are sorted and joined, the file is opened for writing and written
WriteFile(c) ==
    /\ callers[c].pc = "made"
    /\ IF ~dirExists
       THEN Fails(c, "IOError") /\ UNCHANGED <<files, origin>>
       ELSE /\ files' = open_w(files, callers[c].name, LedgerText(callers[c].names))
            /\ origin' = Put(origin, callers[c].name,
                             [written |-> TRUE, names |-> callers[c].names])
            /\ callers' = [callers EXCEPT
                              ![c].pc = "done",
                              ![c].path = callers[c].name,
                              ![c].order =
                                  Cardinality({d \in Callers : callers[d].pc = "done"}) + 1]
    /\ UNCHANGED <<dirExists, last, calls, dialogVars>>

BeginCall == \E c \in Callers : Begin(c)

ValidateCall == \E c \in Callers : ValidatePass(c)

MkdirCall == \E c \in Callers : Mkdir(c)

WriteCall == \E c \in Callers : WriteFile(c)

NextRace == BeginCall \/ ValidateCall \/ MkdirCall \/ WriteCall

SpecRace == InitRace /\ [][NextRace]_vars

\* c and d have both returned from write_to_text called with the same explicit
\* basename, c wrote before d
BothWrote(c, d) ==
    /\ callers[c].pc = "done" /\ callers[d].pc = "done"
    /\ callers[c].basename # <<>>
    /\ callers[c].basename = callers[d].basename
    /\ callers[c].order < callers[d].order

\* C12: two callers run write_ledger at the same time on one directory with the
\* same explicit basename, without a lock between resolving the name and
\* writing the file.  When both resolve the name before either writes, both
\* resolve the same name and return the same path, and the file holds what the
\* later caller wrote: the earlier caller's content is replaced.  When the later
\* caller resolves after the earlier one wrote, the paths differ and each file
\* holds what its caller wrote.
C12_LostWrite ==
    \A c, d \in Callers :
        BothWrote(c, d) =>
            IF callers[d].early
            THEN /\ callers[c].early
                 /\ callers[c].path = callers[d].path
                 /\ files[callers[d].path] = LedgerText(callers[d].names)
                 /\ origin[callers[d].path].names = callers[d].names
            ELSE /\ callers[c].path # callers[d].path
                 /\ files[callers[c].path] = LedgerText(callers[c].names)
                 /\ files[callers[d].path] = LedgerText(callers[d].names)

\* both callers resolved the next free name ab1.txt before either wrote, both
\* returned it, and the names the first caller wrote are gone
C12_Witness ==
    \E c, d \in Callers :
        /\ BothWrote(c, d)
        /\ callers[c].early /\ callers[d].early
        /\ callers[c].basename = <<"a", "b">>
        /\ callers[c].path = <<"a", "b", "1", ".", "t", "x", "t">>
        /\ callers[d].path = callers[c].path
        /\ LedgerText(callers[c].names) # LedgerText(callers[d].names)
        /\ files[callers[c].path] # LedgerText(callers[c].names)
        /\ files[callers[c].path] = LedgerText(callers[d].names)

(***************************************************************************)
(* Claims about the Set button with nothing in the value line edit.        *)
(***************************************************************************)
\* C13: when Set is pressed with an empty value text, a class and a parameter
\* being selected, the dialog shows the "Value required for the set operation"
\* warning and calls setValue on no node: every node of the class keeps the
\* value it had before.
C13_EmptyValueSetsNothing ==
    (dialog.pressed /\ dialog.selected /\ value = <<>>) =>
        /\ "Value required for the set operation" \in dialog.warnings
        /\ Len(nodes) = Len(dialog.pre)
        /\ \A i \in 1..Len(nodes) :
              /\ nodes[i].sets = 0
              /\ nodes[i].arg = dialog.pre[i].arg

====
